---- MODULE Spec2Model ----
(***************************************************************************)
(* Model of CentroBenessereApp (src/centro_benessere_app.py): five tables  *)
(* of a PostgreSQL database reached through one SQLAlchemy session that    *)
(* the application object opens in __init__ and keeps for its lifetime.    *)
(*                                                                         *)
(* What the database and the session do on behalf of the code:             *)
(*   - Column(..., nullable=False): an INSERT or UPDATE that stores None   *)
(*     is refused (IntegrityError wrapping NotNullViolation);              *)
(*   - ForeignKey(...): an INSERT of a prenotazione naming a missing       *)
(*     cliente or dipendente is refused (IntegrityError wrapping           *)
(*     ForeignKeyViolation);                                               *)
(*   - autoincrement: each INSERT draws the next value of the table's      *)
(*     sequence, also when the INSERT is then refused;                     *)
(*   - a commit() whose flush fails rolls the transaction back and leaves  *)
(*     the session deactivated: until session.rollback() is called, which  *)
(*     no method of the class does, every further query or commit raises   *)
(*     PendingRollbackError;                                               *)
(*   - Query.all() without order_by returns the rows in an order the       *)
(*     database chooses.                                                   *)
(* Prices are amounts in cents (Numeric(10, 2)).                           *)
(***************************************************************************)
EXTENDS Integers, Sequences, FiniteSets, TLC

\* Rows ever inserted, over the five tables together.
MaxRows == 4

NULL == "NULL"

Nomi == {"Mario"}
Cognomi == {"Rossi"}
Telefoni == {"335-1234567", "338-7654321"}
Ruoli == {"Estetista"}
Stati == {"Confermata", "Completata"}
Date == {"2025-06-15"}
Ore == {"14:30"}
NomiServizio == {"Massaggio Rilassante"}
NomiProdotto == {"Crema Idratante"}
Prezzi == {0 - 100, 6000}

\* cliente .. prodotto: the rows of each table, by primary key.
\* seq: the last value each table's primary-key sequence has produced.
\* session: "active", or "deactive" once a flush inside commit() has failed.
\* ret: what the last call handed back to its caller.
\* emessi: the identifiers crea_cliente has returned so far.
\* scen: the caller's position in the end-to-end scenario.
VARIABLES cliente, dipendente, servizio, prenotazione, prodotto,
          seq, session, ret, emessi, scen

tables == <<cliente, dipendente, servizio, prenotazione, prodotto>>
vars == <<cliente, dipendente, servizio, prenotazione, prodotto,
          seq, session, ret, emessi, scen>>

\* ---- helpers -----------------------------------------------------------

Insert(t, id, r) == [i \in (DOMAIN t) \cup {id} |-> IF i = id THEN r ELSE t[i]]

Remove(t, id) == [i \in (DOMAIN t) \ {id} |-> t[i]]

Empty == [i \in {} |-> 0]

\* Every ordering of a finite set of identifiers.
Orderings(S) ==
    {f \in [1..Cardinality(S) -> S] : \A x \in S : \E i \in 1..Cardinality(S) : f[i] = x}

\* The number of primary keys drawn so far, which MaxRows caps.
Issued == seq.cliente + seq.dipendente + seq.servizio + seq.prenotazione + seq.prodotto

\* What a call hands back: the outcome, the identifier of the record returned or
\* reported on (0 when there is none), the count a refusal reports, the rows read.
Result(op, res, id, count, rows) ==
    [op |-> op, res |-> res, id |-> id, count |-> count, rows |-> rows]

\* session.query(Cliente).filter(Cliente.idcliente == idcliente).first()
TrovaCliente(idcliente) == idcliente \in DOMAIN cliente

TrovaPrenotazione(idprenotazione) == idprenotazione \in DOMAIN prenotazione

TrovaServizio(idservizio) == idservizio \in DOMAIN servizio

\* The rows of prenotazione whose idcliente column equals idcliente.
PrenotazioniDi(idcliente) ==
    {p \in DOMAIN prenotazione : prenotazione[p].idcliente = idcliente}

\* A count that finds no booking.
NumPrenotazioni_Zero(idcliente) == 0

\* session.query(Prenotazione).filter(...).count()
NumPrenotazioni(idcliente) == Cardinality(PrenotazioniDi(idcliente))

\* A prenotazione table declared without its foreign keys.
ForeignKeysOk_Unchecked(idcliente, iddipendente) == TRUE

\* The two foreign keys of prenotazione.
ForeignKeysOk(idcliente, iddipendente) ==
    idcliente \in DOMAIN cliente /\ iddipendente \in DOMAIN dipendente

\* Identifiers a caller may pass for table t: every one the table's sequence has
\* produced (rows that exist, rows deleted since) and one it has not produced yet.
IdArgs(t) == 1..(seq[t] + 1)

\* An identifier computed from the rows present: one more than the largest.
NextVal_Reuse(t) ==
    IF t = "cliente"
    THEN (IF DOMAIN cliente = {} THEN 0
          ELSE CHOOSE m \in DOMAIN cliente : \A i \in DOMAIN cliente : i <= m) + 1
    ELSE seq[t] + 1

\* The identifier the table's sequence hands to the next INSERT.
NextVal(t) == seq[t] + 1

\* The position of the caller in the end-to-end scenario (create a client, a
\* staff member and a booking linking them, complete the booking, try to delete
\* the client, delete the booking, delete the client), 0 outside it.
ScenStep(op, arg, ok) ==
    IF op = "crea_cliente" /\ ok THEN 1
    ELSE IF scen = 1 /\ op = "crea_dipendente" /\ ok THEN 2
    ELSE IF scen = 2 /\ op = "crea_prenotazione" /\ ok
            /\ arg[3] = "Confermata" /\ arg[4] = seq.cliente /\ arg[5] = seq.dipendente
         THEN 3
    ELSE IF scen = 3 /\ op = "aggiorna_stato_prenotazione"
            /\ arg = <<seq.prenotazione, "Completata">> THEN 4
    ELSE IF scen = 4 /\ op = "cancella_cliente" /\ arg = <<seq.cliente>> THEN 5
    ELSE IF scen = 5 /\ op = "cancella_prenotazione" /\ arg = <<seq.prenotazione>> THEN 6
    ELSE IF scen = 6 /\ op = "cancella_cliente" /\ arg = <<seq.cliente>> THEN 7
    ELSE 0

\* Any call on a session whose transaction a failed flush has rolled back.
Pending(op, arg) ==
    /\ session = "deactive"
    /\ ret' = Result(op, "PendingRollbackError", 0, 0, <<>>)
    /\ scen' = ScenStep(op, arg, FALSE)
    /\ UNCHANGED <<tables, seq, session, emessi>>

\* ---- state after construction ------------------------------------------

Init ==
    /\ cliente = Empty
    /\ dipendente = Empty
    /\ servizio = Empty
    /\ prenotazione = Empty
    /\ prodotto = Empty
    /\ seq = [cliente |-> 0, dipendente |-> 0, servizio |-> 0,
              prenotazione |-> 0, prodotto |-> 0]
    /\ session = "active"
    /\ ret = Result("__init__", "ok", 0, 0, <<>>)
    /\ emessi = {}
    /\ scen = 0

\* ---- create ------------------------------------------------------------

crea_cliente(nome, cognome, telefono) ==
    LET op == "crea_cliente"
        arg == <<nome, cognome, telefono>>
        id == NextVal("cliente")
    IN \/ Pending(op, arg)
       \/ /\ session = "active"
          /\ Issued < MaxRows
          /\ seq' = [seq EXCEPT !.cliente = id]
          /\ IF NULL \in {nome, cognome, telefono}
             THEN /\ session' = "deactive"
                  /\ ret' = Result(op, "NotNullViolation", 0, 0, <<>>)
                  /\ scen' = ScenStep(op, arg, FALSE)
                  /\ UNCHANGED <<tables, emessi>>
             ELSE /\ cliente' = Insert(cliente, id,
                        [nome |-> nome, cognome |-> cognome, telefono |-> telefono])
                  /\ emessi' = emessi \cup {id}
                  /\ ret' = Result(op, "ok", id, 0, <<>>)
                  /\ scen' = ScenStep(op, arg, TRUE)
                  /\ UNCHANGED <<dipendente, servizio, prenotazione, prodotto, session>>

crea_dipendente(nome, cognome, ruolo) ==
    LET op == "crea_dipendente"
        arg == <<nome, cognome, ruolo>>
        id == NextVal("dipendente")
    IN \/ Pending(op, arg)
       \/ /\ session = "active"
          /\ Issued < MaxRows
          /\ seq' = [seq EXCEPT !.dipendente = id]
          /\ IF NULL \in {nome, cognome, ruolo}
             THEN /\ session' = "deactive"
                  /\ ret' = Result(op, "NotNullViolation", 0, 0, <<>>)
                  /\ scen' = ScenStep(op, arg, FALSE)
                  /\ UNCHANGED <<tables, emessi>>
             ELSE /\ dipendente' = Insert(dipendente, id,
                        [nome |-> nome, cognome |-> cognome, ruolo |-> ruolo])
                  /\ ret' = Result(op, "ok", id, 0, <<>>)
                  /\ scen' = ScenStep(op, arg, TRUE)
                  /\ UNCHANGED <<cliente, servizio, prenotazione, prodotto,
                                 session, emessi>>

crea_servizio(nome, prezzo) ==
    LET op == "crea_servizio"
        arg == <<nome, prezzo>>
        id == NextVal("servizio")
    IN \/ Pending(op, arg)
       \/ /\ session = "active"
          /\ Issued < MaxRows
          /\ seq' = [seq EXCEPT !.servizio = id]
          /\ IF nome = NULL
             THEN /\ session' = "deactive"
                  /\ ret' = Result(op, "NotNullViolation", 0, 0, <<>>)
                  /\ scen' = ScenStep(op, arg, FALSE)
                  /\ UNCHANGED <<tables, emessi>>
             ELSE /\ servizio' = Insert(servizio, id, [nome |-> nome, prezzo |-> prezzo])
                  /\ ret' = Result(op, "ok", id, 0, <<>>)
                  /\ scen' = ScenStep(op, arg, TRUE)
                  /\ UNCHANGED <<cliente, dipendente, prenotazione, prodotto,
                                 session, emessi>>

crea_prenotazione(data, ora, stato, idcliente, iddipendente) ==
    LET op == "crea_prenotazione"
        arg == <<data, ora, stato, idcliente, iddipendente>>
        id == NextVal("prenotazione")
    IN \/ Pending(op, arg)
       \/ /\ session = "active"
          /\ Issued < MaxRows
          /\ seq' = [seq EXCEPT !.prenotazione = id]
          /\ IF NULL \in {data, ora, stato}
             THEN /\ session' = "deactive"
                  /\ ret' = Result(op, "NotNullViolation", 0, 0, <<>>)
                  /\ scen' = ScenStep(op, arg, FALSE)
                  /\ UNCHANGED <<tables, emessi>>
             ELSE IF ~ForeignKeysOk(idcliente, iddipendente)
             THEN /\ session' = "deactive"
                  /\ ret' = Result(op, "ForeignKeyViolation", 0, 0, <<>>)
                  /\ scen' = ScenStep(op, arg, FALSE)
                  /\ UNCHANGED <<tables, emessi>>
             ELSE /\ prenotazione' = Insert(prenotazione, id,
                        [data |-> data, ora |-> ora, stato |-> stato,
                         idcliente |-> idcliente, iddipendente |-> iddipendente])
                  /\ ret' = Result(op, "ok", id, 0, <<>>)
                  /\ scen' = ScenStep(op, arg, TRUE)
                  /\ UNCHANGED <<cliente, dipendente, servizio, prodotto,
                                 session, emessi>>

crea_prodotto(nome, prezzo) ==
    LET op == "crea_prodotto"
        arg == <<nome, prezzo>>
        id == NextVal("prodotto")
    IN \/ Pending(op, arg)
       \/ /\ session = "active"
          /\ Issued < MaxRows
          /\ seq' = [seq EXCEPT !.prodotto = id]
          /\ IF nome = NULL
             THEN /\ session' = "deactive"
                  /\ ret' = Result(op, "NotNullViolation", 0, 0, <<>>)
                  /\ scen' = ScenStep(op, arg, FALSE)
                  /\ UNCHANGED <<tables, emessi>>
             ELSE /\ prodotto' = Insert(prodotto, id, [nome |-> nome, prezzo |-> prezzo])
                  /\ ret' = Result(op, "ok", id, 0, <<>>)
                  /\ scen' = ScenStep(op, arg, TRUE)
                  /\ UNCHANGED <<cliente, dipendente, servizio, prenotazione,
                                 session, emessi>>

\* ---- read --------------------------------------------------------------

leggi_tutti_clienti ==
    LET op == "leggi_tutti_clienti"
    IN \/ Pending(op, <<>>)
       \/ /\ session = "active"
          /\ \E rows \in Orderings(DOMAIN cliente) :
                ret' = Result(op, "ok", 0, 0, rows)
          /\ scen' = ScenStep(op, <<>>, TRUE)
          /\ UNCHANGED <<tables, seq, session, emessi>>

leggi_prenotazioni_cliente(idcliente) ==
    LET op == "leggi_prenotazioni_cliente"
        arg == <<idcliente>>
    IN \/ Pending(op, arg)
       \/ /\ session = "active"
          /\ \E rows \in Orderings(PrenotazioniDi(idcliente)) :
                ret' = Result(op, "ok", 0, 0, rows)
          /\ scen' = ScenStep(op, arg, TRUE)
          /\ UNCHANGED <<tables, seq, session, emessi>>

\* ---- update ------------------------------------------------------------

aggiorna_telefono_cliente(idcliente, nuovo_telefono) ==
    LET op == "aggiorna_telefono_cliente"
        arg == <<idcliente, nuovo_telefono>>
    IN \/ Pending(op, arg)
       \/ /\ session = "active"
          /\ scen' = ScenStep(op, arg, TRUE)
          /\ IF TrovaCliente(idcliente)
             THEN IF nuovo_telefono = NULL
                  THEN /\ session' = "deactive"
                       /\ ret' = Result(op, "NotNullViolation", 0, 0, <<>>)
                       /\ UNCHANGED <<tables, seq, emessi>>
                  ELSE /\ cliente' = [cliente EXCEPT ![idcliente].telefono = nuovo_telefono]
                       /\ ret' = Result(op, "ok", idcliente, 0, <<>>)
                       /\ UNCHANGED <<dipendente, servizio, prenotazione, prodotto,
                                      seq, session, emessi>>
             ELSE /\ ret' = Result(op, "None", 0, 0, <<>>)
                  /\ UNCHANGED <<tables, seq, session, emessi>>

aggiorna_stato_prenotazione(idprenotazione, nuovo_stato) ==
    LET op == "aggiorna_stato_prenotazione"
        arg == <<idprenotazione, nuovo_stato>>
    IN \/ Pending(op, arg)
       \/ /\ session = "active"
          /\ scen' = ScenStep(op, arg, TRUE)
          /\ IF TrovaPrenotazione(idprenotazione)
             THEN IF nuovo_stato = NULL
                  THEN /\ session' = "deactive"
                       /\ ret' = Result(op, "NotNullViolation", 0, 0, <<>>)
                       /\ UNCHANGED <<tables, seq, emessi>>
                  ELSE /\ prenotazione' =
                             [prenotazione EXCEPT ![idprenotazione].stato = nuovo_stato]
                       /\ ret' = Result(op, "ok", idprenotazione, 0, <<>>)
                       /\ UNCHANGED <<cliente, dipendente, servizio, prodotto,
                                      seq, session, emessi>>
             ELSE /\ ret' = Result(op, "None", 0, 0, <<>>)
                  /\ UNCHANGED <<tables, seq, session, emessi>>

aggiorna_prezzo_servizio(idservizio, nuovo_prezzo) ==
    LET op == "aggiorna_prezzo_servizio"
        arg == <<idservizio, nuovo_prezzo>>
    IN \/ Pending(op, arg)
       \/ /\ session = "active"
          /\ scen' = ScenStep(op, arg, TRUE)
          /\ IF TrovaServizio(idservizio)
             THEN /\ servizio' = [servizio EXCEPT ![idservizio].prezzo = nuovo_prezzo]
                  /\ ret' = Result(op, "ok", idservizio, 0, <<>>)
                  /\ UNCHANGED <<cliente, dipendente, prenotazione, prodotto,
                                 seq, session, emessi>>
             ELSE /\ ret' = Result(op, "None", 0, 0, <<>>)
                  /\ UNCHANGED <<tables, seq, session, emessi>>

\* ---- delete ------------------------------------------------------------

\* A delete that takes the client's bookings with it.
cancella_cliente_cascade(idcliente) ==
    LET op == "cancella_cliente"
        arg == <<idcliente>>
    IN \/ Pending(op, arg)
       \/ /\ session = "active"
          /\ scen' = ScenStep(op, arg, TRUE)
          /\ IF TrovaCliente(idcliente)
             THEN /\ cliente' = Remove(cliente, idcliente)
                  /\ prenotazione' = [p \in (DOMAIN prenotazione) \ PrenotazioniDi(idcliente)
                                        |-> prenotazione[p]]
                  /\ ret' = Result(op, "True", idcliente, 0, <<>>)
                  /\ UNCHANGED <<dipendente, servizio, prodotto, seq, session, emessi>>
             ELSE /\ ret' = Result(op, "False", 0, 0, <<>>)
                  /\ UNCHANGED <<tables, seq, session, emessi>>

cancella_cliente(idcliente) ==
    LET op == "cancella_cliente"
        arg == <<idcliente>>
        num_prenotazioni == NumPrenotazioni(idcliente)
    IN \/ Pending(op, arg)
       \/ /\ session = "active"
          /\ scen' = ScenStep(op, arg, TRUE)
          /\ IF TrovaCliente(idcliente)
             THEN IF num_prenotazioni > 0
                  THEN /\ ret' = Result(op, "False", idcliente, num_prenotazioni, <<>>)
                       /\ UNCHANGED <<tables, seq, session, emessi>>
                  ELSE /\ cliente' = Remove(cliente, idcliente)
                       /\ ret' = Result(op, "True", idcliente, 0, <<>>)
                       /\ UNCHANGED <<dipendente, servizio, prenotazione, prodotto,
                                      seq, session, emessi>>
             ELSE /\ ret' = Result(op, "False", 0, 0, <<>>)
                  /\ UNCHANGED <<tables, seq, session, emessi>>

cancella_prenotazione(idprenotazione) ==
    LET op == "cancella_prenotazione"
        arg == <<idprenotazione>>
    IN \/ Pending(op, arg)
       \/ /\ session = "active"
          /\ scen' = ScenStep(op, arg, TRUE)
          /\ IF TrovaPrenotazione(idprenotazione)
             THEN /\ prenotazione' = Remove(prenotazione, idprenotazione)
                  /\ ret' = Result(op, "True", idprenotazione, 0, <<>>)
                  /\ UNCHANGED <<cliente, dipendente, servizio, prodotto,
                                 seq, session, emessi>>
             ELSE /\ ret' = Result(op, "False", 0, 0, <<>>)
                  /\ UNCHANGED <<tables, seq, session, emessi>>

cancella_servizio(idservizio) ==
    LET op == "cancella_servizio"
        arg == <<idservizio>>
    IN \/ Pending(op, arg)
       \/ /\ session = "active"
          /\ scen' = ScenStep(op, arg, TRUE)
          /\ IF TrovaServizio(idservizio)
             THEN /\ servizio' = Remove(servizio, idservizio)
                  /\ ret' = Result(op, "True", idservizio, 0, <<>>)
                  /\ UNCHANGED <<cliente, dipendente, prenotazione, prodotto,
                                 seq, session, emessi>>
             ELSE /\ ret' = Result(op, "False", 0, 0, <<>>)
                  /\ UNCHANGED <<tables, seq, session, emessi>>

\* ---- the calls a caller can make ---------------------------------------

Next ==
    \/ \E n \in Nomi, c \in Cognomi, t \in Telefoni \cup {NULL} : crea_cliente(n, c, t)
    \/ \E n \in Nomi, c \in Cognomi, r \in Ruoli \cup {NULL} : crea_dipendente(n, c, r)
    \/ \E n \in NomiServizio \cup {NULL}, p \in Prezzi : crea_servizio(n, p)
    \/ \E d \in Date, o \in Ore, s \in Stati \cup {NULL},
          c \in IdArgs("cliente"), e \in IdArgs("dipendente") :
          crea_prenotazione(d, o, s, c, e)
    \/ \E n \in NomiProdotto \cup {NULL}, p \in Prezzi : crea_prodotto(n, p)
    \/ leggi_tutti_clienti
    \/ \E c \in IdArgs("cliente") : leggi_prenotazioni_cliente(c)
    \/ \E c \in IdArgs("cliente"), t \in Telefoni \cup {NULL} : aggiorna_telefono_cliente(c, t)
    \/ \E p \in IdArgs("prenotazione"), s \in Stati \cup {NULL} : aggiorna_stato_prenotazione(p, s)
    \/ \E s \in IdArgs("servizio"), p \in Prezzi : aggiorna_prezzo_servizio(s, p)
    \/ \E c \in IdArgs("cliente") : cancella_cliente(c)
    \/ \E p \in IdArgs("prenotazione") : cancella_prenotazione(p)
    \/ \E s \in IdArgs("servizio") : cancella_servizio(s)

Spec == Init /\ [][Next]_vars

\* ---- properties ---------------------------------------------------------

\* The bookings that reference client c, read off the table.
Referencing(c) == {p \in DOMAIN prenotazione : prenotazione[p].idcliente = c}

\* C1: in every reachable state every stored booking's idcliente is the
\* identifier of a stored client and its iddipendente that of a stored staff
\* member.
C1_ReferentialIntegrity ==
    \A p \in DOMAIN prenotazione :
        /\ prenotazione[p].idcliente \in DOMAIN cliente
        /\ prenotazione[p].iddipendente \in DOMAIN dipendente

\* A booking is stored and a create naming a missing client or staff member
\* has just been refused.
C1_Witness ==
    /\ DOMAIN prenotazione # {}
    /\ ret.op = "crea_prenotazione"
    /\ ret.res = "ForeignKeyViolation"

\* C2: cancella_cliente on a client that one or more bookings reference never
\* reports success and leaves the client table and the booking table as they
\* were.
C2_ReferencedClientNotDeleted ==
    [][\A c \in IdArgs("cliente") :
          (cancella_cliente(c) /\ c \in DOMAIN cliente /\ Referencing(c) # {})
          => /\ ret'.res # "True"
             /\ cliente' = cliente
             /\ prenotazione' = prenotazione]_vars

\* The delete of a referenced client has just been refused.
C2_Witness ==
    /\ ret.op = "cancella_cliente"
    /\ ret.res = "False"
    /\ ret.id \in DOMAIN cliente
    /\ Referencing(ret.id) # {}

\* C3: cancella_cliente on a stored client that no booking references returns
\* True, removes that client and keeps every other client.
C3_UnreferencedClientDeleted ==
    [][\A c \in IdArgs("cliente") :
          (cancella_cliente(c) /\ c \in DOMAIN cliente /\ Referencing(c) = {})
          => /\ ret'.res = "True"
             /\ c \notin DOMAIN cliente'
             /\ \A o \in (DOMAIN cliente) \ {c} :
                   o \in DOMAIN cliente' /\ cliente'[o] = cliente[o]]_vars

\* C4: crea_prenotazione with otherwise valid fields and a client or staff
\* identifier that names no stored row fails with the foreign-key error and
\* leaves every table as it was.
C4_DanglingCreateRefused ==
    [][\A d \in Date, o \in Ore, s \in Stati,
          c \in IdArgs("cliente"), e \in IdArgs("dipendente") :
          (crea_prenotazione(d, o, s, c, e)
             /\ (c \notin DOMAIN cliente \/ e \notin DOMAIN dipendente))
          => /\ ret'.res = "ForeignKeyViolation"
             /\ tables' = tables]_vars

\* C5: in the end-to-end scenario the status update is read back as
\* "Completata", the first delete of the client is refused with count 1, the
\* delete of the booking succeeds and the second delete of the client succeeds.
C5_Scenario ==
    /\ scen = 4 => /\ ret.res = "ok"
                   /\ ret.id = seq.prenotazione
                   /\ seq.prenotazione \in DOMAIN prenotazione
                   /\ prenotazione[seq.prenotazione].stato = "Completata"
    /\ scen = 5 => /\ ret.res = "False"
                   /\ ret.count = 1
                   /\ seq.cliente \in DOMAIN cliente
                   /\ seq.prenotazione \in DOMAIN prenotazione
    /\ scen = 6 => /\ ret.res = "True"
                   /\ seq.prenotazione \notin DOMAIN prenotazione
    /\ scen = 7 => /\ ret.res = "True"
                   /\ seq.cliente \notin DOMAIN cliente

\* The scenario has run to its last step.
C5_Witness == scen = 7 /\ ret.op = "cancella_cliente" /\ seq.prenotazione > 0

\* C6: each of the three updates, called with an identifier that names no
\* stored row, returns None and leaves every table as it was.
C6_UpdateMissingId ==
    [][/\ \A c \in IdArgs("cliente"), t \in Telefoni \cup {NULL} :
             (aggiorna_telefono_cliente(c, t) /\ c \notin DOMAIN cliente)
             => (ret'.res = "None" /\ tables' = tables)
       /\ \A p \in IdArgs("prenotazione"), s \in Stati \cup {NULL} :
             (aggiorna_stato_prenotazione(p, s) /\ p \notin DOMAIN prenotazione)
             => (ret'.res = "None" /\ tables' = tables)
       /\ \A s \in IdArgs("servizio"), p \in Prezzi :
             (aggiorna_prezzo_servizio(s, p) /\ s \notin DOMAIN servizio)
             => (ret'.res = "None" /\ tables' = tables)]_vars

\* C7: in every reachable state the price of every stored service and of
\* every stored product is non-negative.
C7_PricesNonNegative ==
    /\ \A s \in DOMAIN servizio : servizio[s].prezzo >= 0
    /\ \A p \in DOMAIN prodotto : prodotto[p].prezzo >= 0

\* C8: when the previous call was a create that the database refused, a
\* crea_prenotazione with valid fields and stored client and staff succeeds
\* and stores exactly the submitted booking.
C8_UsableAfterRejectedCreate ==
    [][\A d \in Date, o \in Ore, s \in Stati,
          c \in DOMAIN cliente, e \in DOMAIN dipendente :
          (/\ ret.op \in {"crea_cliente", "crea_dipendente", "crea_servizio",
                          "crea_prenotazione", "crea_prodotto"}
           /\ ret.res \in {"NotNullViolation", "ForeignKeyViolation"}
           /\ crea_prenotazione(d, o, s, c, e))
          => /\ ret'.res = "ok"
             /\ prenotazione' = Insert(prenotazione, ret'.id,
                    [data |-> d, ora |-> o, stato |-> s,
                     idcliente |-> c, iddipendente |-> e])
             /\ UNCHANGED <<cliente, dipendente, servizio, prodotto>>]_vars

\* The bookings of client c in the order they were inserted (ascending
\* identifier).
InInsertionOrder(S) ==
    CHOOSE f \in [1..Cardinality(S) -> S] :
        /\ \A x \in S : \E i \in 1..Cardinality(S) : f[i] = x
        /\ \A i, j \in 1..Cardinality(S) : i < j => f[i] < f[j]

\* C9: whenever leggi_prenotazioni_cliente(c) returns, it returns the
\* bookings whose idcliente is c, all of them and no others, in insertion
\* order.
C9_ReadByClientInInsertionOrder ==
    [][\A c \in IdArgs("cliente") :
          (leggi_prenotazioni_cliente(c) /\ ret'.res = "ok")
          => ret'.rows = InInsertionOrder(Referencing(c))]_vars

====
